---- MODULE Spec2Model ----
(***************************************************************************)
(* WaQteK HR service (backend/server.py): the leave-balance ledger.        *)
(*                                                                         *)
(* The document store is modelled as one sequence per collection, in       *)
(* insertion order (find_one returns the first match, update_one changes   *)
(* the first match).  Every request is a coroutine: its dependencies       *)
(* (get_current_user, the role check) and its handler.  It is split at     *)
(* its store operations (the awaits) and at the role check, which runs in  *)
(* the thread pool: the only points where another request can run, and     *)
(* where the clock can move.  A value the code reads before it suspends    *)
(* (datetime.utcnow()) is read in the step that ends at the suspension.    *)
(* Leave amounts are floats that are multiples                             *)
(* of 0.5 in the code; they are counted here in half-days (1.0 is 2),      *)
(* which is exact for the sums the code computes.                          *)
(***************************************************************************)
EXTENDS Integers, Sequences, FiniteSets, TLC

\* The six collections, the clock (months since January 2025), the request
\* slots, the number of requests begun, and two history variables: the
\* employees of the adjust requests answered 200 (adjusted) and of the
\* balance updates applied (applied).
VARIABLES users, employees, leave_balances, sick_days, leave_adjustments,
          audit_logs, now, proc, calls, adjusted, applied

\* The six collections.
store == <<users, employees, leave_balances, sick_days, leave_adjustments, audit_logs>>
vars == <<users, employees, leave_balances, sick_days, leave_adjustments,
          audit_logs, now, proc, calls, adjusted, applied>>

\* ------------------------------------------------------------------ bounds
\* Requests begun in one behaviour.
MaxCalls == 2
\* Month changes in one behaviour.
MaxTicks == 1

\* Request slots: the requests that can be in flight together.
Procs == {1, 2}
\* The sequential service: one request at a time.
SeqProcs == {1}

\* ------------------------------------------------------- program constants
\* UserRole
Roles == {"admin", "hr", "manager", "employee"}
\* Mutant: the Manager role let through to adjust_leave_balance.
AdjustAllowedRolesWithManager == {"admin", "hr", "manager"}
\* require_role([ADMIN, HR]) of adjust_leave_balance
AdjustAllowedRoles == {"admin", "hr"}
\* require_role([ADMIN, HR]) of create_employee
CreateAllowedRoles == {"admin", "hr"}
\* require_role([ADMIN, HR, MANAGER]) of get_employee
GetAllowedRoles == {"admin", "hr", "manager"}
\* Mutant: no restriction on what an HR actor creates.
HRCreatableRolesAny == {"employee", "manager", "hr", "admin"}
\* "HR can only create Employee and Manager roles"
HRCreatableRoles == {"employee", "manager"}
\* Mutant: 2.0 accepted as an adjustment.
ValidAdjustmentsWithTwo == {2, -2, 1, -1, 4}
\* [1.0, -1.0, 0.5, -0.5] in half-days
ValidAdjustments == {2, -2, 1, -1}
\* the literal 3 of sick_days_remaining = 3 - sick_days_used
TotalAllowed == 3
\* initial_leave_balance = 20.0 of the sample data, in half-days
SeedLeave == 40

\* datetime.utcnow().year and .month of a clock that counts months
YearOf(t) == 2025 + (t \div 12)
MonthOf(t) == (t % 12) + 1

\* ------------------------------------------------------------ the store
\* find_one: the first document that matches, as a sequence of length <= 1
\* (<<>> is None).
FindOne(coll, Match(_)) ==
    LET m == SelectSeq(coll, Match) IN IF m = <<>> THEN <<>> ELSE <<Head(m)>>

\* The index update_one changes: the first match, 0 when nothing matches.
FirstIdx(coll, Match(_)) ==
    IF \E i \in 1..Len(coll) : Match(coll[i])
    THEN CHOOSE i \in 1..Len(coll) :
            Match(coll[i]) /\ \A j \in 1..(i - 1) : ~Match(coll[j])
    ELSE 0

\* Mutant: the employee lookup without the id.
FindActiveEmployeeAnyId(emps, employee_id) ==
    FindOne(emps, LAMBDA e : e.is_active)

\* db.employees.find_one({"id": employee_id, "is_active": True})
FindActiveEmployee(emps, employee_id) ==
    FindOne(emps, LAMBDA e : e.id = employee_id /\ e.is_active)

\* db.leave_balances.find_one({"employee_id", "year", "month"})
FindBalance(rows, employee_id, t) ==
    FindOne(rows, LAMBDA r : r.employee_id = employee_id
                             /\ r.year = YearOf(t) /\ r.month = MonthOf(t))

\* db.sick_days.find_one({"employee_id", "year"})
FindSickDays(rows, employee_id, t) ==
    FindOne(rows, LAMBDA r : r.employee_id = employee_id /\ r.year = YearOf(t))

\* Mutant: the lookup by email finds nobody.
FindUserByEmailNobody(us, email) == <<>>

\* db.users.find_one({"email": email})
FindUserByEmail(us, email) == FindOne(us, LAMBDA u : u.email = email)

\* db.users.find_one({"id": user_id}) of get_current_user
FindUserById(us, user_id) == FindOne(us, LAMBDA u : u.id = user_id)

\* pwd_context.hash(password): the digest of the password, never the
\* password itself.
hash_password(password) == <<"bcrypt", password>>

\* pwd_context.verify(plain_password, hashed_password)
verify_password(plain_password, hashed_password) ==
    hashed_password = hash_password(plain_password)

\* update_one({"id": id}, {"$set": {"last_login": utcnow()}})
UpdateLastLogin(us, id, t) ==
    LET i == FirstIdx(us, LAMBDA u : u.id = id) IN
    IF i = 0 THEN us ELSE [us EXCEPT ![i].last_login = <<t>>]

\* LeaveBalance(employee_id, year, month, opening_balance, closing_balance):
\* leave_taken and hr_adjustments take their defaults 0.0; the uuid4 id is
\* the row's position, fresh because rows are never deleted.
NewLeaveBalance(rows, employee_id, t, opening, closing) ==
    [id |-> Len(rows) + 1, employee_id |-> employee_id,
     year |-> YearOf(t), month |-> MonthOf(t),
     opening_balance |-> opening, leave_taken |-> 0,
     hr_adjustments |-> 0, closing_balance |-> closing]

\* The row adjust_leave_balance inserts when the month has none.
MissingBalance(rows, employee_id, t) ==
    NewLeaveBalance(rows, employee_id, t, 0, 0)

\* Mutant: hr_adjustments is set to the amount, not incremented by it.
UpdateBalanceSetAmount(rows, id, new_balance, adjustment) ==
    LET i == FirstIdx(rows, LAMBDA r : r.id = id) IN
    IF i = 0 THEN rows
    ELSE [rows EXCEPT ![i] = [@ EXCEPT !.closing_balance = new_balance,
                                        !.hr_adjustments = adjustment]]

\* Mutant: the update also moves the row's opening balance.
UpdateBalanceRebased(rows, id, new_balance, adjustment) ==
    LET i == FirstIdx(rows, LAMBDA r : r.id = id) IN
    IF i = 0 THEN rows
    ELSE [rows EXCEPT ![i] = [@ EXCEPT !.closing_balance = new_balance,
                                        !.opening_balance = new_balance,
                                        !.hr_adjustments = @ + adjustment]]

\* update_one({"id": id}, {"$set": {"closing_balance": new_balance},
\*                         "$inc": {"hr_adjustments": adjustment}})
UpdateBalance(rows, id, new_balance, adjustment) ==
    LET i == FirstIdx(rows, LAMBDA r : r.id = id) IN
    IF i = 0 THEN rows
    ELSE [rows EXCEPT ![i] = [@ EXCEPT !.closing_balance = new_balance,
                                        !.hr_adjustments = @ + adjustment]]

\* new_balance = leave_balance["closing_balance"] + adjustment
NewBalance(row, adjustment) == row.closing_balance + adjustment

\* Mutant: the record names the employee, not the acting user.
NewLeaveAdjustmentByEmployee(employee_id, adjustment, reason, actor) ==
    [employee_id |-> employee_id, adjustment_amount |-> adjustment,
     reason |-> reason, adjusted_by |-> employee_id]

\* LeaveAdjustment(employee_id, adjustment_amount, reason, adjusted_by)
NewLeaveAdjustment(employee_id, adjustment, reason, actor) ==
    [employee_id |-> employee_id, adjustment_amount |-> adjustment,
     reason |-> reason, adjusted_by |-> actor]

\* AuditLog(user_id, action, target_type, target_id, details)
NewAuditLog(user_id, action, target_type, target_id, details) ==
    [user_id |-> user_id, action |-> action, target_type |-> target_type,
     target_id |-> target_id, details |-> details]

\* ------------------------------------------------------------ requests
\* A request slot with no request: the coroutine's arguments, locals and
\* response, all unset.
Idle ==
    [pc |-> "idle", op |-> "none", actor |-> 0, role |-> "none",
     employee_id |-> 0, adjustment |-> 0, reason |-> "",
     data |-> <<>>, user_id |-> 0,
     employee |-> <<>>, current_date |-> 0, leave_balance |-> <<>>,
     new_balance |-> 0, sick |-> <<>>,
     emps |-> <<>>, response |-> <<>>, user |-> <<>>,
     status |-> 0, resp |-> <<>>]

\* A slot can take a request when it holds none or a finished one.
Free(p) == proc[p].pc \in {"idle", "done"} /\ calls < MaxCalls

\* raise HTTPException(status_code=code): the request ends with no response body.
Raise(r, code) == [r EXCEPT !.pc = "done", !.status = code]

\* return {...}: the request ends with 200 and the body.
Return(r, body) == [r EXCEPT !.pc = "done", !.status = 200, !.resp = <<body>>]

\* ------------------------------------------- credentials and the role check
\* The Authorization header of a request: absent, or a bearer token that
\* jwt.decode accepts (signed) or refuses, with the user id in its "sub".
NoCredentials == [present |-> FALSE, signed |-> FALSE, sub |-> 0]
MalformedToken == [present |-> TRUE, signed |-> FALSE, sub |-> 0]
Token(user_id) == [present |-> TRUE, signed |-> TRUE, sub |-> user_id]

\* The request arrives: HTTPBearer refuses a request without credentials
\* (403), get_current_user refuses a token jwt.decode rejects (401), and
\* then suspends on db.users.find_one.
Arrive(r, credentials) ==
    IF ~credentials.present THEN Raise(r, 403)
    ELSE IF ~credentials.signed THEN Raise(r, 401)
    ELSE [r EXCEPT !.pc = "auth", !.actor = credentials.sub]

\* get_current_user: user = find_one({"id": user_id}); no user, 401.  The
\* role checker runs next, in the thread pool.
Authenticate(p) ==
    /\ proc[p].pc = "auth"
    /\ LET user == FindUserById(users, proc[p].actor) IN
       proc' = [proc EXCEPT ![p] =
          IF user = <<>> THEN Raise(@, 401)
          ELSE [@ EXCEPT !.pc = "role", !.role = Head(user).role]]
    /\ UNCHANGED <<store, now, calls, adjusted, applied>>

\* The roles require_role is given by each handler.
AllowedRoles(op) ==
    CASE op = "adjust" -> AdjustAllowedRoles
      [] op = "create" -> CreateAllowedRoles
      [] op = "get" -> GetAllowedRoles
      [] op = "get_employees" -> GetAllowedRoles

\* role_checker: a role that is not allowed, 403.  Then the handler's body
\* starts and runs to its first store operation: adjust_leave_balance
\* validates the amount (400) on the way.
RequireRole(p) ==
    /\ proc[p].pc = "role"
    /\ LET r == proc[p] IN
       proc' = [proc EXCEPT ![p] =
          IF r.role \notin AllowedRoles(r.op) THEN Raise(r, 403)
          ELSE IF r.op = "adjust"
               THEN IF r.adjustment \notin ValidAdjustments THEN Raise(r, 400)
                    ELSE [r EXCEPT !.pc = "adj_emp"]
          ELSE IF r.op = "create" THEN [r EXCEPT !.pc = "cre_email"]
          ELSE IF r.op = "get" THEN [r EXCEPT !.pc = "get_emp"]
          ELSE [r EXCEPT !.pc = "list_find"]]
    /\ UNCHANGED <<store, now, calls, adjusted, applied>>

\* ------------------------------------------------- adjust_leave_balance
\* The request arrives.
AdjustBegin(p, credentials, employee_id, adjustment, reason) ==
    /\ Free(p)
    /\ proc' = [proc EXCEPT ![p] =
          Arrive([Idle EXCEPT !.op = "adjust", !.employee_id = employee_id,
                              !.adjustment = adjustment, !.reason = reason],
                 credentials)]
    /\ calls' = calls + 1
    /\ UNCHANGED <<store, now, adjusted, applied>>

\* employee = find_one({"id", "is_active": True}); none, 404.  Then
\* current_date = utcnow() is read, before the request suspends on the
\* balance lookup.
AdjustFindEmployee(p) ==
    /\ proc[p].pc = "adj_emp"
    /\ LET emp == FindActiveEmployee(employees, proc[p].employee_id) IN
       proc' = [proc EXCEPT ![p] =
          IF emp = <<>> THEN Raise(@, 404)
          ELSE [@ EXCEPT !.pc = "adj_find", !.employee = emp, !.current_date = now]]
    /\ UNCHANGED <<store, now, calls, adjusted, applied>>

\* leave_balance = find_one(employee, current_date.year, current_date.month)
AdjustFindBalance(p) ==
    /\ proc[p].pc = "adj_find"
    /\ proc' = [proc EXCEPT ![p] =
          [@ EXCEPT !.pc = "adj_write",
                    !.leave_balance = FindBalance(leave_balances, proc[p].employee_id,
                                                  proc[p].current_date)]]
    /\ UNCHANGED <<store, now, calls, adjusted, applied>>

\* Mutant: update_one is not run; the request goes on to its record and
\* its audit entry all the same.
AdjustWriteSkipped(p) ==
    /\ proc[p].pc = "adj_write"
    /\ proc' = [proc EXCEPT ![p] =
          IF proc[p].leave_balance = <<>> THEN Raise(@, 500)
          ELSE [@ EXCEPT !.pc = "adj_record",
                         !.new_balance = NewBalance(Head(proc[p].leave_balance),
                                                    proc[p].adjustment)]]
    /\ UNCHANGED <<store, now, calls, adjusted, applied>>

\* No row: a LeaveBalance model object is built and inserted, and then
\* subscripted (leave_balance["closing_balance"]): a pydantic model is not
\* subscriptable, TypeError ends the request as a 500 after the insert.
\* A row: new_balance is computed from the row as it was read, and written;
\* `applied` records the employee of every update_one that was applied.
AdjustWrite(p) ==
    /\ proc[p].pc = "adj_write"
    /\ LET r == proc[p] IN
       IF r.leave_balance = <<>>
       THEN /\ leave_balances' = Append(leave_balances,
                   MissingBalance(leave_balances, r.employee_id, r.current_date))
            /\ proc' = [proc EXCEPT ![p] = Raise(r, 500)]
            /\ applied' = applied
       ELSE LET nb == NewBalance(Head(r.leave_balance), r.adjustment) IN
            /\ leave_balances' = UpdateBalance(leave_balances,
                   Head(r.leave_balance).id, nb, r.adjustment)
            /\ proc' = [proc EXCEPT ![p] =
                   [r EXCEPT !.pc = "adj_record", !.new_balance = nb]]
            /\ applied' = Append(applied, r.employee_id)
    /\ UNCHANGED <<users, employees, sick_days, leave_adjustments, audit_logs, now, calls, adjusted>>

\* Mutant: one record per employee, a later adjustment written over it.
AdjustRecordUpsert(p) ==
    /\ proc[p].pc = "adj_record"
    /\ LET rec == NewLeaveAdjustment(proc[p].employee_id, proc[p].adjustment,
                                     proc[p].reason, proc[p].actor)
           i == FirstIdx(leave_adjustments, LAMBDA a : a.employee_id = rec.employee_id)
       IN leave_adjustments' = IF i = 0 THEN Append(leave_adjustments, rec)
                               ELSE [leave_adjustments EXCEPT ![i] = rec]
    /\ proc' = [proc EXCEPT ![p].pc = "adj_audit"]
    /\ UNCHANGED <<users, employees, leave_balances, sick_days, audit_logs, now, calls, adjusted, applied>>

\* db.leave_adjustments.insert_one(adjustment_record)
AdjustRecord(p) ==
    /\ proc[p].pc = "adj_record"
    /\ leave_adjustments' = Append(leave_adjustments,
          NewLeaveAdjustment(proc[p].employee_id, proc[p].adjustment,
                             proc[p].reason, proc[p].actor))
    /\ proc' = [proc EXCEPT ![p].pc = "adj_audit"]
    /\ UNCHANGED <<users, employees, leave_balances, sick_days, audit_logs, now, calls, adjusted, applied>>

\* The details payload of the ADJUST_LEAVE_BALANCE audit entry.
AdjustDetails(r) ==
    [employee_name |-> Head(r.employee).full_name, adjustment |-> r.adjustment,
     reason |-> r.reason, new_balance |-> r.new_balance]

\* The response body of adjust_leave_balance.
AdjustResponse(r) == [new_balance |-> r.new_balance, adjustment |-> r.adjustment]

\* log_audit(...ADJUST_LEAVE_BALANCE...) and the return; `adjusted` records
\* the employee of every adjust request answered 200.
AdjustAudit(p) ==
    /\ proc[p].pc = "adj_audit"
    /\ audit_logs' = Append(audit_logs,
          NewAuditLog(proc[p].actor, "ADJUST_LEAVE_BALANCE", "employee",
                      proc[p].employee_id, AdjustDetails(proc[p])))
    /\ proc' = [proc EXCEPT ![p] = Return(@, AdjustResponse(@))]
    /\ adjusted' = Append(adjusted, proc[p].employee_id)
    /\ UNCHANGED <<users, employees, leave_balances, sick_days, leave_adjustments, now, calls, applied>>

\* ------------------------------------------------------ create_employee
\* User(email, password_hash, role): is_active defaults to True, last_login
\* to None.
NewUser(us, data) ==
    [id |-> Len(us) + 1, email |-> data.email,
     password_hash |-> hash_password(data.password), role |-> data.role,
     is_active |-> TRUE, last_login |-> <<>>]

\* Employee(user_id, full_name, email, ..., initial_leave_balance, created_by):
\* is_active defaults to True.
NewEmployee(emps, user_id, data, actor) ==
    [id |-> Len(emps) + 1, user_id |-> user_id, full_name |-> data.full_name,
     email |-> data.email, initial_leave_balance |-> data.initial_leave_balance,
     is_active |-> TRUE, created_by |-> actor]

\* Mutant: the seeded row ignores the initial balance.
SeedBalanceZero(rows, employee_id, t, initial) ==
    NewLeaveBalance(rows, employee_id, t, 0, 0)

\* The row create_employee seeds: opening and closing are the initial balance.
SeedBalance(rows, employee_id, t, initial) ==
    NewLeaveBalance(rows, employee_id, t, initial, initial)

\* SickDays(employee_id, year): used_days defaults to 0, total_allowed to 3.
NewSickDays(employee_id, t) ==
    [employee_id |-> employee_id, year |-> YearOf(t), used_days |-> 0,
     total_allowed |-> TotalAllowed]

\* EmployeeResponse, with the fields the ledger decides.
EmployeeResponse(emp, balance, used, remaining) ==
    [id |-> emp.id, full_name |-> emp.full_name, email |-> emp.email,
     current_leave_balance |-> balance, sick_days_used |-> used,
     sick_days_remaining |-> remaining]
\* The request arrives.
CreateBegin(p, credentials, data) ==
    /\ Free(p)
    /\ proc' = [proc EXCEPT ![p] =
          Arrive([Idle EXCEPT !.op = "create", !.data = <<data>>], credentials)]
    /\ calls' = calls + 1
    /\ UNCHANGED <<store, now, adjusted, applied>>

\* existing_user = find_one({"email"}): a taken email, 400; then the
\* restriction of what an HR actor may create, 403.
CreateCheckEmail(p) ==
    /\ proc[p].pc = "cre_email"
    /\ LET r == proc[p]
           data == Head(r.data)
       IN proc' = [proc EXCEPT ![p] =
             IF FindUserByEmail(users, data.email) # <<>> THEN Raise(r, 400)
             ELSE IF r.role = "hr" /\ data.role \notin HRCreatableRoles THEN Raise(r, 403)
             ELSE [r EXCEPT !.pc = "cre_user"]]
    /\ UNCHANGED <<store, now, calls, adjusted, applied>>

\* db.users.insert_one(user)
CreateInsertUser(p) ==
    /\ proc[p].pc = "cre_user"
    /\ LET u == NewUser(users, Head(proc[p].data)) IN
       /\ users' = Append(users, u)
       /\ proc' = [proc EXCEPT ![p] = [@ EXCEPT !.pc = "cre_emp", !.user_id = u.id]]
    /\ UNCHANGED <<employees, leave_balances, sick_days, leave_adjustments, audit_logs, now, calls, adjusted, applied>>

\* db.employees.insert_one(employee); then current_date = utcnow() is
\* read, before the request suspends on the balance insert.
CreateInsertEmployee(p) ==
    /\ proc[p].pc = "cre_emp"
    /\ LET e == NewEmployee(employees, proc[p].user_id, Head(proc[p].data), proc[p].actor) IN
       /\ employees' = Append(employees, e)
       /\ proc' = [proc EXCEPT ![p] =
             [@ EXCEPT !.pc = "cre_bal", !.employee = <<e>>, !.employee_id = e.id,
                       !.current_date = now]]
    /\ UNCHANGED <<users, leave_balances, sick_days, leave_adjustments, audit_logs, now, calls, adjusted, applied>>

\* db.leave_balances.insert_one(leave_balance)
CreateInsertBalance(p) ==
    /\ proc[p].pc = "cre_bal"
    /\ leave_balances' = Append(leave_balances,
          SeedBalance(leave_balances, proc[p].employee_id, proc[p].current_date,
                      Head(proc[p].data).initial_leave_balance))
    /\ proc' = [proc EXCEPT ![p].pc = "cre_sick"]
    /\ UNCHANGED <<users, employees, sick_days, leave_adjustments, audit_logs, now, calls, adjusted, applied>>

\* db.sick_days.insert_one(sick_days)
CreateInsertSick(p) ==
    /\ proc[p].pc = "cre_sick"
    /\ sick_days' = Append(sick_days, NewSickDays(proc[p].employee_id, proc[p].current_date))
    /\ proc' = [proc EXCEPT ![p].pc = "cre_audit"]
    /\ UNCHANGED <<users, employees, leave_balances, leave_adjustments, audit_logs, now, calls, adjusted, applied>>

\* The response body of create_employee: the initial balance, 0 used, 3 remaining.
CreateResponse(r) ==
    EmployeeResponse(Head(r.employee), Head(r.data).initial_leave_balance, 0, 3)

\* log_audit(...CREATE_EMPLOYEE...) and the return.
CreateAudit(p) ==
    /\ proc[p].pc = "cre_audit"
    /\ audit_logs' = Append(audit_logs,
          NewAuditLog(proc[p].actor, "CREATE_EMPLOYEE", "employee", proc[p].employee_id,
                      [employee_name |-> Head(proc[p].employee).full_name,
                       email |-> Head(proc[p].employee).email]))
    /\ proc' = [proc EXCEPT ![p] = Return(@, CreateResponse(@))]
    /\ UNCHANGED <<users, employees, leave_balances, sick_days, leave_adjustments, now, calls, adjusted, applied>>

\* --------------------------------------------------------- get_employee
\* current_balance = leave_balance["closing_balance"] if leave_balance else 0.0
CurrentBalance(found) == IF found = <<>> THEN 0 ELSE Head(found).closing_balance

\* sick_days_used = sick_days["used_days"] if sick_days else 0
SickDaysUsed(found) == IF found = <<>> THEN 0 ELSE Head(found).used_days

\* Mutant: the days used are reported as the days remaining.
SickDaysRemainingUsed(used) == used

\* sick_days_remaining = 3 - sick_days_used
SickDaysRemaining(used) == TotalAllowed - used

\* The request arrives.
GetBegin(p, credentials, employee_id) ==
    /\ Free(p)
    /\ proc' = [proc EXCEPT ![p] =
          Arrive([Idle EXCEPT !.op = "get", !.employee_id = employee_id], credentials)]
    /\ calls' = calls + 1
    /\ UNCHANGED <<store, now, adjusted, applied>>

\* employee = find_one({"id", "is_active": True}); none, 404.  Then
\* current_date = utcnow() is read, before the request suspends on the
\* balance lookup.
GetFindEmployee(p) ==
    /\ proc[p].pc = "get_emp"
    /\ LET emp == FindActiveEmployee(employees, proc[p].employee_id) IN
       proc' = [proc EXCEPT ![p] =
          IF emp = <<>> THEN Raise(@, 404)
          ELSE [@ EXCEPT !.pc = "get_bal", !.employee = emp, !.current_date = now]]
    /\ UNCHANGED <<store, now, calls, adjusted, applied>>

\* leave_balance = find_one(employee, current_date.year, current_date.month)
GetBalance(p) ==
    /\ proc[p].pc = "get_bal"
    /\ proc' = [proc EXCEPT ![p] =
          [@ EXCEPT !.pc = "get_sick",
                    !.leave_balance = FindBalance(leave_balances, proc[p].employee_id,
                                                  proc[p].current_date)]]
    /\ UNCHANGED <<store, now, calls, adjusted, applied>>

\* sick_days = find_one(employee, current_date.year), and the return.
GetSick(p) ==
    /\ proc[p].pc = "get_sick"
    /\ LET r == proc[p]
           found == FindSickDays(sick_days, r.employee_id, r.current_date)
           used == SickDaysUsed(found)
       IN proc' = [proc EXCEPT ![p] =
             Return([r EXCEPT !.sick = found],
                    EmployeeResponse(Head(r.employee), CurrentBalance(r.leave_balance),
                                     used, SickDaysRemaining(used)))]
    /\ UNCHANGED <<store, now, calls, adjusted, applied>>

\* -------------------------------------------------------- get_employees
\* db.employees.find({"is_active": True}).to_list(1000)
FindActiveEmployees(emps) == SelectSeq(emps, LAMBDA e : e.is_active)

\* The request arrives.
GetEmployeesBegin(p, credentials) ==
    /\ Free(p)
    /\ proc' = [proc EXCEPT ![p] =
          Arrive([Idle EXCEPT !.op = "get_employees"], credentials)]
    /\ calls' = calls + 1
    /\ UNCHANGED <<store, now, adjusted, applied>>

\* employees = find({"is_active": True}).to_list(1000); r.emps holds the
\* employees the loop has still to visit.  The loop starts: current_date =
\* utcnow() is read for the first employee, before the request suspends
\* on the balance lookup.
GetEmployeesFind(p) ==
    /\ proc[p].pc = "list_find"
    /\ LET found == FindActiveEmployees(employees) IN
       proc' = [proc EXCEPT ![p] =
          IF found = <<>> THEN Return(@, <<>>)
          ELSE [@ EXCEPT !.pc = "list_bal", !.emps = found, !.current_date = now,
                         !.employee_id = Head(found).id]]
    /\ UNCHANGED <<store, now, calls, adjusted, applied>>

\* leave_balance = find_one(emp, current_date.year, current_date.month)
GetEmployeesBalance(p) ==
    /\ proc[p].pc = "list_bal"
    /\ proc' = [proc EXCEPT ![p] =
          [@ EXCEPT !.pc = "list_sick",
                    !.leave_balance = FindBalance(leave_balances, proc[p].employee_id,
                                                  proc[p].current_date)]]
    /\ UNCHANGED <<store, now, calls, adjusted, applied>>

\* sick_days = find_one(emp, current_date.year); response.append(...).
\* With employees left, current_date = utcnow() is read for the next; after
\* the last, the return.
GetEmployeesSick(p) ==
    /\ proc[p].pc = "list_sick"
    /\ LET r == proc[p]
           found == FindSickDays(sick_days, r.employee_id, r.current_date)
           used == SickDaysUsed(found)
           item == EmployeeResponse(Head(r.emps), CurrentBalance(r.leave_balance),
                                    used, SickDaysRemaining(used))
           q == [r EXCEPT !.sick = found, !.emps = Tail(r.emps),
                          !.response = Append(r.response, item)]
       IN proc' = [proc EXCEPT ![p] =
             IF q.emps = <<>> THEN Return(q, q.response)
             ELSE [q EXCEPT !.pc = "list_bal", !.current_date = now,
                            !.employee_id = Head(q.emps).id]]
    /\ UNCHANGED <<store, now, calls, adjusted, applied>>

\* ------------------------------------------------------- a failing store
\* An awaited store operation raises (connection lost, timeout): no handler
\* and no dependency catches it, the request ends as a 500 where it stands,
\* and what it wrote before stays written.  A request at the role check is
\* not suspended on the store.
StoreFails(p) ==
    /\ proc[p].pc \notin {"idle", "done", "role"}
    /\ proc' = [proc EXCEPT ![p] = Raise(@, 500)]
    /\ UNCHANGED <<store, now, calls, adjusted, applied>>

\* ---------------------------------------------------------------- login
\* The token data and the response body of login.
LoginResponse(user) ==
    [access_token |-> [sub |-> user.id], token_type |-> "bearer", user_role |-> user.role]

\* The request arrives and suspends on db.users.find_one.
LoginBegin(p, user_credentials) ==
    /\ Free(p)
    /\ proc' = [proc EXCEPT ![p] =
          [Idle EXCEPT !.pc = "login_find", !.op = "login", !.data = <<user_credentials>>]]
    /\ calls' = calls + 1
    /\ UNCHANGED <<store, now, adjusted, applied>>

\* user = find_one({"email"}); no user or a wrong password, 401; a
\* disabled account, 401.  Then the last_login value utcnow() is read,
\* before the request suspends on update_one.
LoginFind(p) ==
    /\ proc[p].pc = "login_find"
    /\ LET r == proc[p]
           user_credentials == Head(r.data)
           user == FindUserByEmail(users, user_credentials.email)
       IN proc' = [proc EXCEPT ![p] =
             IF user = <<>> THEN Raise(r, 401)
             ELSE IF ~verify_password(user_credentials.password, Head(user).password_hash)
                  THEN Raise(r, 401)
             ELSE IF ~Head(user).is_active THEN Raise(r, 401)
             ELSE [r EXCEPT !.pc = "login_update", !.user = user,
                            !.user_id = Head(user).id, !.current_date = now]]
    /\ UNCHANGED <<store, now, calls, adjusted, applied>>

\* db.users.update_one: last_login
LoginUpdate(p) ==
    /\ proc[p].pc = "login_update"
    /\ users' = UpdateLastLogin(users, Head(proc[p].user).id, proc[p].current_date)
    /\ proc' = [proc EXCEPT ![p].pc = "login_audit"]
    /\ UNCHANGED <<employees, leave_balances, sick_days, leave_adjustments, audit_logs, now, calls, adjusted, applied>>

\* log_audit(user, "LOGIN", "user", user, {"email"}) and the return.
LoginAudit(p) ==
    /\ proc[p].pc = "login_audit"
    /\ LET user == Head(proc[p].user) IN
       /\ audit_logs' = Append(audit_logs,
             NewAuditLog(user.id, "LOGIN", "user", user.id, [email |-> user.email]))
       /\ proc' = [proc EXCEPT ![p] = Return(@, LoginResponse(user))]
    /\ UNCHANGED <<users, employees, leave_balances, sick_days, leave_adjustments, now, calls, adjusted, applied>>

\* ------------------------------------------------------------- the seed
\* init_data.py clears users, employees, leave_balances, sick_days and
\* audit_logs, and then inserts, for each of the sample users below: a
\* user, an employee with 20.0 days, the month's balance row and the
\* year's sick-days row.  Ids are positions: admin 1, hr1 2, hr2 3,
\* manager1 4, ..., emp1 7, ..., emp10 16.
sample_users ==
    << [email |-> "admin@waqtek.com", password |-> "admin123", role |-> "admin",
        full_name |-> "System Administrator"],
       [email |-> "hr1@waqtek.com", password |-> "hr123", role |-> "hr",
        full_name |-> "Sara Ahmed"],
       [email |-> "hr2@waqtek.com", password |-> "hr123", role |-> "hr",
        full_name |-> "Omar Hassan"],
       [email |-> "manager1@waqtek.com", password |-> "manager123", role |-> "manager",
        full_name |-> "Ahmed Ali"],
       [email |-> "manager2@waqtek.com", password |-> "manager123", role |-> "manager",
        full_name |-> "Fatima Al-Zahra"],
       [email |-> "manager3@waqtek.com", password |-> "manager123", role |-> "manager",
        full_name |-> "Khalid Rashid"],
       [email |-> "emp1@waqtek.com", password |-> "emp123", role |-> "employee",
        full_name |-> "Amina Mahmoud"],
       [email |-> "emp2@waqtek.com", password |-> "emp123", role |-> "employee",
        full_name |-> "Youssef Ibrahim"],
       [email |-> "emp3@waqtek.com", password |-> "emp123", role |-> "employee",
        full_name |-> "Layla Saad"],
       [email |-> "emp4@waqtek.com", password |-> "emp123", role |-> "employee",
        full_name |-> "Hassan Farid"],
       [email |-> "emp5@waqtek.com", password |-> "emp123", role |-> "employee",
        full_name |-> "Nour Abdel-Rahman"],
       [email |-> "emp6@waqtek.com", password |-> "emp123", role |-> "employee",
        full_name |-> "Tariq Mohsen"],
       [email |-> "emp7@waqtek.com", password |-> "emp123", role |-> "employee",
        full_name |-> "Rana Khaled"],
       [email |-> "emp8@waqtek.com", password |-> "emp123", role |-> "employee",
        full_name |-> "Mahmoud Nasser"],
       [email |-> "emp9@waqtek.com", password |-> "emp123", role |-> "employee",
        full_name |-> "Dina Farouk"],
       [email |-> "emp10@waqtek.com", password |-> "emp123", role |-> "employee",
        full_name |-> "Karim Mostafa"] >>

SeedUsers ==
    [i \in 1..Len(sample_users) |->
        [id |-> i, email |-> sample_users[i].email,
         password_hash |-> hash_password(sample_users[i].password),
         role |-> sample_users[i].role, is_active |-> TRUE, last_login |-> <<>>]]

\* created_by is "system", written 0: the id of no user.
SeedEmployees ==
    [i \in 1..Len(sample_users) |->
        [id |-> i, user_id |-> i, full_name |-> sample_users[i].full_name,
         email |-> sample_users[i].email, initial_leave_balance |-> SeedLeave,
         is_active |-> TRUE, created_by |-> 0]]

SeedLeaveBalances(t) ==
    [i \in 1..Len(sample_users) |->
        [id |-> i, employee_id |-> i, year |-> YearOf(t), month |-> MonthOf(t),
         opening_balance |-> SeedLeave, leave_taken |-> 0, hr_adjustments |-> 0,
         closing_balance |-> SeedLeave]]

SeedSickDays(t) ==
    [i \in 1..Len(sample_users) |->
        [employee_id |-> i, year |-> YearOf(t), used_days |-> 0,
         total_allowed |-> TotalAllowed]]

SeedAuditLogs ==
    << NewAuditLog(1, "SYSTEM_INITIALIZATION", "system", 0,
                   [message |-> "Database initialized with sample data"]) >>

\* leave_adjustments is the one collection init_data.py does not clear:
\* after a re-initialisation it holds the records of the adjustments made
\* before, whose employees and actors (id 0 here) were deleted with the rest.
SurvivingAdjustments == << NewLeaveAdjustment(0, 2, "before the reset", 0) >>

\* The store as init_data.py leaves it, no request in flight: a first
\* initialisation in November 2025, or a re-initialisation in December
\* 2025, the balance update of the surviving adjustment applied before it.
Init ==
    /\ \/ now = 10 /\ leave_adjustments = <<>> /\ applied = <<>>
       \/ now = 11 /\ leave_adjustments = SurvivingAdjustments /\ applied = <<0>>
    /\ users = SeedUsers
    /\ employees = SeedEmployees
    /\ leave_balances = SeedLeaveBalances(now)
    /\ sick_days = SeedSickDays(now)
    /\ audit_logs = SeedAuditLogs
    /\ proc = [p \in Procs |-> Idle]
    /\ calls = 0
    /\ adjusted = <<>>

\* ------------------------------------------------------------ the clock
\* The month init_data.py ran in, as its first balance row records it.
InitialisedAt == (leave_balances[1].year - 2025) * 12 + (leave_balances[1].month - 1)

\* A month passes (datetime.utcnow() moves to the next month).
Tick ==
    /\ now < InitialisedAt + MaxTicks
    /\ now' = now + 1
    /\ UNCHANGED <<store, proc, calls, adjusted, applied>>

\* ------------------------------------------------------------ the inputs
\* The credentials of a request: the tokens of the administrator, of HR,
\* of a manager and of an employee, a token issued to a user the
\* re-initialisation deleted (id 0), a token jwt.decode refuses, and none.
Credentials ==
    {Token(1), Token(2), Token(4), Token(7), Token(0), MalformedToken, NoCredentials}
\* Employee ids of requests: a seeded employee, and an id that names
\* nobody until an employee is created.
Targets == {7, Len(sample_users) + 1}
\* 1.0 and -0.5, and the amounts 2.0 and 0.0 that are not allowed.
Amounts == {2, -1, 4, 0}
Reasons == {"unpaid day"}
\* EmployeeCreate bodies: a taken email and a free one, a role HR may
\* create and one it may not, 15.0 days.
CreateBodies ==
    [full_name : {"New Hire"}, email : {"emp1@waqtek.com", "new@waqtek.com"},
     password : {"new123"}, initial_leave_balance : {30}, role : {"employee", "admin"}]

\* UserLogin bodies: HR with the password, HR with a wrong one, and an
\* email no user has.
Logins ==
    { [email |-> "hr1@waqtek.com", password |-> "hr123"],
      [email |-> "hr1@waqtek.com", password |-> "hr1234"],
      [email |-> "nobody@waqtek.com", password |-> "hr123"] }

\* The inputs of the concurrent service: authorized, valid requests.
ConcCredentials == {Token(2)}
ConcTargets == Targets
ConcAmounts == {2, -1}
ConcBodies ==
    [full_name : {"New Hire"}, email : {"new@waqtek.com"},
     password : {"new123"}, initial_leave_balance : {30}, role : {"employee"}]

\* --------------------------------------------------------- specifications
\* The dependencies of a request in flight: get_current_user, require_role.
AuthContinue(p) == Authenticate(p) \/ RequireRole(p)

\* A step of the adjust request in slot p that is already in flight.
AdjustContinue(p) ==
    \/ AdjustFindEmployee(p) \/ AdjustFindBalance(p) \/ AdjustWrite(p)
    \/ AdjustRecord(p) \/ AdjustAudit(p)

\* A step of the create request in slot p that is already in flight.
CreateContinue(p) ==
    \/ CreateCheckEmail(p) \/ CreateInsertUser(p) \/ CreateInsertEmployee(p)
    \/ CreateInsertBalance(p) \/ CreateInsertSick(p) \/ CreateAudit(p)

\* A step of the get request in slot p that is already in flight.
GetContinue(p) == GetFindEmployee(p) \/ GetBalance(p) \/ GetSick(p)

\* A step of the list request in slot p that is already in flight.
GetEmployeesContinue(p) ==
    GetEmployeesFind(p) \/ GetEmployeesBalance(p) \/ GetEmployeesSick(p)

\* A step of the login request in slot p that is already in flight.
LoginContinue(p) == LoginFind(p) \/ LoginUpdate(p) \/ LoginAudit(p)

\* One request at a time: any credentials, any input.
Next ==
    \/ Tick
    \/ \E p \in SeqProcs :
          \/ \E c \in Credentials, e \in Targets, x \in Amounts, why \in Reasons :
                AdjustBegin(p, c, e, x, why)
          \/ \E c \in Credentials, d \in CreateBodies : CreateBegin(p, c, d)
          \/ \E c \in Credentials, e \in Targets : GetBegin(p, c, e)
          \/ \E c \in Logins : LoginBegin(p, c)
          \/ AuthContinue(p)
          \/ AdjustContinue(p)
          \/ CreateContinue(p)
          \/ GetContinue(p)
          \/ LoginContinue(p)

Spec == Init /\ [][Next]_vars

\* Requests in flight together, interleaved at their store operations.
NextConc ==
    \/ Tick
    \/ \E p \in Procs :
          \/ \E c \in ConcCredentials, e \in ConcTargets, x \in ConcAmounts, why \in Reasons :
                AdjustBegin(p, c, e, x, why)
          \/ \E c \in ConcCredentials, d \in ConcBodies : CreateBegin(p, c, d)
          \/ \E c \in ConcCredentials, e \in ConcTargets : GetBegin(p, c, e)
          \/ AuthContinue(p)
          \/ AdjustContinue(p)
          \/ CreateContinue(p)
          \/ GetContinue(p)

SpecConc == Init /\ [][NextConc]_vars

\* The writing requests and login, one request at a time, over a store
\* that can fail at any operation.
NextFail ==
    \/ Tick
    \/ \E p \in SeqProcs :
          \/ \E c \in ConcCredentials, e \in ConcTargets, x \in ConcAmounts, why \in Reasons :
                AdjustBegin(p, c, e, x, why)
          \/ \E c \in ConcCredentials, d \in ConcBodies : CreateBegin(p, c, d)
          \/ \E c \in ConcCredentials, e \in ConcTargets : GetBegin(p, c, e)
          \/ \E c \in Logins : LoginBegin(p, c)
          \/ AuthContinue(p)
          \/ AdjustContinue(p)
          \/ CreateContinue(p)
          \/ GetContinue(p)
          \/ LoginContinue(p)
          \/ StoreFails(p)

SpecFail == Init /\ [][NextFail]_vars

\* The reads of the service, one request at a time: get_employee and
\* get_employees, with any credentials, over a store that can fail at any
\* operation.
NextRead ==
    \/ Tick
    \/ \E p \in SeqProcs :
          \/ \E c \in Credentials, e \in Targets : GetBegin(p, c, e)
          \/ \E c \in Credentials : GetEmployeesBegin(p, c)
          \/ AuthContinue(p)
          \/ GetContinue(p)
          \/ GetEmployeesContinue(p)
          \/ StoreFails(p)

SpecRead == Init /\ [][NextRead]_vars

\* ----------------------------------------------------------- properties
\* Some active employee record has this id.
ActiveEmployee(employee_id) ==
    \E i \in 1..Len(employees) : employees[i].id = employee_id /\ employees[i].is_active

\* The balance rows of an employee's month.
RowsOf(employee_id, t) ==
    SelectSeq(leave_balances, LAMBDA r : r.employee_id = employee_id
                                         /\ r.year = YearOf(t) /\ r.month = MonthOf(t))

\* C1: an adjust request by Admin or HR with an allowed amount for an active
\* employee is answered 200, the month's row closes at what it closed at
\* before plus the amount, and the response carries that closing balance and
\* the amount, whether the month's row existed or the request had to create it.
C1_AdjustAppliesAmount ==
    \A p \in SeqProcs :
        LET r == proc[p] IN
        (/\ r.pc = "done" /\ r.op = "adjust"
         /\ r.role \in {"admin", "hr"}
         /\ r.adjustment \in {2, -2, 1, -1}
         /\ ActiveEmployee(r.employee_id))
        => /\ r.status = 200
           /\ RowsOf(r.employee_id, r.current_date) # <<>>
           /\ LET row == Head(RowsOf(r.employee_id, r.current_date))
                  before == IF r.leave_balance = <<>> THEN row.opening_balance
                            ELSE Head(r.leave_balance).closing_balance
              IN /\ row.closing_balance = before + r.adjustment
                 /\ Head(r.resp).new_balance = row.closing_balance
                 /\ Head(r.resp).adjustment = r.adjustment

\* C2: an adjust request of an Admin or HR whose amount is none of 1.0,
\* -1.0, 0.5, -0.5 never enters the handler's store operations and ends
\* with 400, and no step of a request with such an amount changes anything
\* in the store.
C2_InvalidAmountRejected ==
    /\ [](\A p \in Procs :
            LET r == proc[p] IN
            (/\ r.op = "adjust" /\ r.role \in {"admin", "hr"}
             /\ r.adjustment \notin {2, -2, 1, -1})
            => /\ r.pc \in {"role", "done"}
               /\ r.pc = "done" => r.status = 400)
    /\ [][\A p \in Procs :
            (/\ proc'[p] # proc[p] /\ proc'[p].op = "adjust"
             /\ proc'[p].adjustment \notin {2, -2, 1, -1})
            => UNCHANGED store]_vars

\* A second request was rejected for its amount: 2.0, by HR, and the store
\* is the seeded one.
C2_Witness ==
    \E p \in Procs :
        /\ proc[p].pc = "done" /\ proc[p].op = "adjust" /\ proc[p].status = 400
        /\ proc[p].adjustment = 4 /\ proc[p].role = "hr"
        /\ calls = 2 /\ audit_logs = SeedAuditLogs
        /\ leave_balances = SeedLeaveBalances(InitialisedAt)

\* C3: an adjust request of a Manager or an Employee never goes past the
\* role check and ends with 403, whatever its amount and employee id, and
\* no step of a request up to and including the role check changes
\* anything in the store; a request of an Admin or HR is never answered 403.
C3_AdjustRoleMatrix ==
    /\ [](\A p \in Procs :
            LET r == proc[p] IN
            r.op = "adjust"
            => /\ r.role \in {"manager", "employee"}
                  => /\ r.pc \in {"role", "done"}
                     /\ r.pc = "done" => r.status = 403
               /\ r.role \in {"admin", "hr"} => r.status # 403)
    /\ [][\A p \in Procs :
            (/\ proc'[p] # proc[p] /\ proc'[p].op = "adjust"
             /\ proc[p].pc \in {"idle", "done", "auth", "role"})
            => UNCHANGED store]_vars

\* After an adjustment by an Admin, a Manager's request with an allowed
\* amount for an active employee was answered 403.
C3_Witness ==
    \E p \in Procs :
        /\ proc[p].pc = "done" /\ proc[p].op = "adjust" /\ proc[p].status = 403
        /\ proc[p].role = "manager" /\ proc[p].adjustment = 2
        /\ ActiveEmployee(proc[p].employee_id)
        /\ leave_adjustments # <<>>
        /\ leave_adjustments[Len(leave_adjustments)].adjusted_by = 1

\* All balance rows and all sick-days rows of an employee.
AllRowsOf(employee_id) ==
    SelectSeq(leave_balances, LAMBDA r : r.employee_id = employee_id)
AllSickDaysOf(employee_id) ==
    SelectSeq(sick_days, LAMBDA r : r.employee_id = employee_id)

\* C4: an adjust request of an Admin or HR with an allowed amount, for an id
\* that no active employee record has, never goes past the employee lookup
\* and ends with 404, and no step of a request for such an id changes
\* anything in the store.
C4_UnknownEmployeeNotFound ==
    /\ [](\A p \in Procs :
            LET r == proc[p] IN
            (/\ r.op = "adjust" /\ r.role \in {"admin", "hr"}
             /\ r.adjustment \in {2, -2, 1, -1}
             /\ ~ActiveEmployee(r.employee_id))
            => /\ r.pc \in {"role", "adj_emp", "done"}
               /\ r.pc = "done" => r.status = 404)
    /\ [][\A p \in Procs :
            (/\ proc'[p] # proc[p] /\ proc'[p].op = "adjust"
             /\ ~ActiveEmployee(proc'[p].employee_id))
            => UNCHANGED store]_vars

\* After an adjustment of a seeded employee, a request of HR for an id no
\* employee has was answered 404, and there is no balance row for that id.
C4_Witness ==
    \E p \in Procs :
        /\ proc[p].pc = "done" /\ proc[p].op = "adjust" /\ proc[p].status = 404
        /\ proc[p].role = "hr" /\ proc[p].employee_id = Len(sample_users) + 1
        /\ ~ActiveEmployee(proc[p].employee_id)
        /\ AllRowsOf(proc[p].employee_id) = <<>>
        /\ Len(adjusted) = 1

\* The sum of the amounts of the requests in the slots S.
RECURSIVE SumOfAdjustments(_)
SumOfAdjustments(S) ==
    IF S = {} THEN 0
    ELSE LET p == CHOOSE x \in S : TRUE
         IN proc[p].adjustment + SumOfAdjustments(S \ {p})

\* The LeaveAdjustment records of an employee.
AdjustmentsOf(employee_id) ==
    SelectSeq(leave_adjustments, LAMBDA a : a.employee_id = employee_id)

\* C5: when the requests in flight together were all adjustments of one
\* employee's month, all answered 200, and they are the only adjustments of
\* that employee, the month's row closes at its opening balance plus the sum
\* of their amounts.
C5_NoLostUpdates ==
    (/\ \A p \in Procs :
            /\ proc[p].pc = "done" /\ proc[p].op = "adjust" /\ proc[p].status = 200
            /\ proc[p].employee_id = proc[1].employee_id
            /\ proc[p].current_date = proc[1].current_date
     /\ Len(AdjustmentsOf(proc[1].employee_id)) = Cardinality(Procs))
    => LET row == Head(RowsOf(proc[1].employee_id, proc[1].current_date))
       IN row.closing_balance = row.opening_balance + SumOfAdjustments(Procs)

\* C6: no two balance rows have the same employee, year and month.
C6_OneRowPerMonth ==
    \A i, j \in 1..Len(leave_balances) :
        (/\ leave_balances[i].employee_id = leave_balances[j].employee_id
         /\ leave_balances[i].year = leave_balances[j].year
         /\ leave_balances[i].month = leave_balances[j].month)
        => i = j

\* C7: every balance row closes at its opening balance plus its
\* hr_adjustments.
C7_BalanceInvariant ==
    \A i \in 1..Len(leave_balances) :
        leave_balances[i].closing_balance
            = leave_balances[i].opening_balance + leave_balances[i].hr_adjustments

\* The employee records with this id.
EmployeesWithId(employee_id) ==
    SelectSeq(employees, LAMBDA e : e.id = employee_id)

\* C8: when create_employee has answered 200, the new employee has exactly
\* one balance row, for the month of the creation, with opening and closing
\* balance the chosen initial balance and hr_adjustments 0, and exactly one
\* sick-days row, with 0 used days; and a get_employee answered 200 in the
\* month of the employee's seeded row, with no adjustment of the employee
\* recorded, shows the initial balance and 3 sick days remaining.
C8_CreateSeedsBalance ==
    \A p \in SeqProcs :
        LET r == proc[p] IN
        /\ (r.pc = "done" /\ r.op = "create" /\ r.status = 200)
           => LET e == Head(r.resp).id
                  initial == Head(r.data).initial_leave_balance
                  rows == AllRowsOf(e)
                  sick == AllSickDaysOf(e)
              IN /\ Len(rows) = 1
                 /\ rows[1].year = YearOf(r.current_date)
                 /\ rows[1].month = MonthOf(r.current_date)
                 /\ rows[1].opening_balance = initial
                 /\ rows[1].closing_balance = initial
                 /\ rows[1].hr_adjustments = 0
                 /\ Len(sick) = 1
                 /\ sick[1].year = YearOf(r.current_date)
                 /\ sick[1].used_days = 0
                 /\ Len(EmployeesWithId(e)) = 1
                 /\ EmployeesWithId(e)[1].initial_leave_balance = initial
                 /\ Head(r.resp).current_leave_balance = initial
                 /\ Head(r.resp).sick_days_remaining = 3
        /\ (/\ r.pc = "done" /\ r.op = "get" /\ r.status = 200
            /\ AllRowsOf(r.employee_id) # <<>>
            /\ AllRowsOf(r.employee_id)[1].year = YearOf(r.current_date)
            /\ AllRowsOf(r.employee_id)[1].month = MonthOf(r.current_date)
            /\ AdjustmentsOf(r.employee_id) = <<>>)
           => /\ Head(r.resp).current_leave_balance
                    = EmployeesWithId(r.employee_id)[1].initial_leave_balance
              /\ Head(r.resp).sick_days_remaining = 3

\* An employee was created with 15.0 days and then read in the month of the
\* creation: the response shows 15.0 days.
C8_Witness ==
    \E p \in SeqProcs :
        /\ proc[p].pc = "done" /\ proc[p].op = "get" /\ proc[p].status = 200
        /\ \E i \in 1..Len(audit_logs) :
              /\ audit_logs[i].action = "CREATE_EMPLOYEE"
              /\ audit_logs[i].target_id = proc[p].employee_id
        /\ AllRowsOf(proc[p].employee_id)[1].month = MonthOf(proc[p].current_date)
        /\ Head(proc[p].resp).current_leave_balance = 30

\* The ADJUST_LEAVE_BALANCE audit entries of an employee.
AdjustAuditsOf(employee_id) ==
    SelectSeq(audit_logs, LAMBDA a : a.action = "ADJUST_LEAVE_BALANCE"
                                     /\ a.target_id = employee_id)

\* The adjust requests of an employee answered 200 so far.
AnsweredOf(employee_id) == SelectSeq(adjusted, LAMBDA e : e = employee_id)

\* C9: when adjust_leave_balance has answered 200, the newest
\* LeaveAdjustment record carries the request's employee, amount, reason and
\* acting user, and the newest audit entry is an ADJUST_LEAVE_BALANCE entry
\* of the acting user for the employee with the amount and the new balance
\* of the response; and with no request in flight, every employee has as
\* many LeaveAdjustment records, and as many ADJUST_LEAVE_BALANCE entries,
\* as adjust requests answered 200.
C9_AdjustmentRecorded ==
    /\ \A p \in SeqProcs :
          LET r == proc[p] IN
          (r.pc = "done" /\ r.op = "adjust" /\ r.status = 200)
          => /\ leave_adjustments # <<>>
             /\ leave_adjustments[Len(leave_adjustments)]
                   = [employee_id |-> r.employee_id, adjustment_amount |-> r.adjustment,
                      reason |-> r.reason, adjusted_by |-> r.actor]
             /\ LET a == audit_logs[Len(audit_logs)] IN
                /\ a.user_id = r.actor
                /\ a.action = "ADJUST_LEAVE_BALANCE"
                /\ a.target_type = "employee"
                /\ a.target_id = r.employee_id
                /\ a.details.adjustment = r.adjustment
                /\ a.details.reason = r.reason
                /\ a.details.new_balance = Head(r.resp).new_balance
                /\ a.details.new_balance
                      = Head(RowsOf(r.employee_id, r.current_date)).closing_balance
    /\ (\A p \in Procs : proc[p].pc \in {"idle", "done"})
       => \A e \in 1..Len(employees) :
             /\ Len(AdjustmentsOf(e)) = Len(AnsweredOf(e))
             /\ Len(AdjustAuditsOf(e)) = Len(AnsweredOf(e))

\* Two adjustments of the same employee were answered 200.
C9_Witness ==
    /\ \A p \in Procs : proc[p].pc \in {"idle", "done"}
    /\ Len(adjusted) = 2 /\ adjusted[1] = adjusted[2]
    /\ Len(AdjustmentsOf(adjusted[1])) = 2
    /\ \E p \in SeqProcs : proc[p].op = "adjust" /\ proc[p].status = 200

\* Some user has this email.
EmailTaken(email) == \E i \in 1..Len(users) : users[i].email = email

\* No step of a create request that stands before its first insert
\* changes anything in the store.
CreateRejectionWritesNothing ==
    \A p \in Procs :
        (/\ proc'[p] # proc[p] /\ proc'[p].op = "create"
         /\ proc[p].pc \in {"idle", "done", "auth", "role", "cre_email"})
        => UNCHANGED store

\* C10 as stated: a create request of HR for the role Admin or HR ends with
\* 403, one of a Manager or an Employee ends with 403, one of an Admin, or
\* of HR for the role Employee or Manager, is never answered 403, and a
\* request that is rejected changes nothing in the store.
C10_CreateRoleRulesAsStated ==
    /\ [](\A p \in Procs :
            LET r == proc[p]
                wanted == Head(r.data).role
            IN r.op = "create"
               => /\ (r.role = "hr" /\ wanted \in {"admin", "hr"} /\ r.pc = "done")
                     => r.status = 403
                  /\ r.role \in {"manager", "employee"}
                     => /\ r.pc \in {"role", "done"}
                        /\ r.pc = "done" => r.status = 403
                  /\ r.role = "admin" => r.status # 403
                  /\ (r.role = "hr" /\ wanted \in {"employee", "manager"})
                     => r.status # 403)
    /\ [][CreateRejectionWritesNothing]_vars

\* C10, amended: a create request of HR for the role Admin or HR ends with
\* 400 when the email is taken and with 403 otherwise, and never reaches
\* an insert; the rest as stated.
C10_CreateRoleRules ==
    /\ [](\A p \in Procs :
            LET r == proc[p]
                wanted == Head(r.data).role
            IN r.op = "create"
               => /\ (r.role = "hr" /\ wanted \in {"admin", "hr"})
                     => /\ r.pc \in {"role", "cre_email", "done"}
                        /\ r.pc = "done" => r.status \in {400, 403}
                  /\ r.role \in {"manager", "employee"}
                     => /\ r.pc \in {"role", "done"}
                        /\ r.pc = "done" => r.status = 403
                  /\ r.role = "admin" => r.status # 403
                  /\ (r.role = "hr" /\ wanted \in {"employee", "manager"})
                     => r.status # 403)
    /\ [][/\ CreateRejectionWritesNothing
          /\ \A p \in Procs :
                LET r == proc[p] IN
                (/\ proc'[p] # r /\ r.op = "create" /\ r.pc = "cre_email"
                 /\ r.role = "hr" /\ Head(r.data).role \in {"admin", "hr"})
                => /\ proc'[p].pc = "done"
                   /\ proc'[p].status
                         = IF EmailTaken(Head(r.data).email) THEN 400 ELSE 403]_vars

\* HR asked for an Admin account with a free email and was answered 403.
C10_Witness ==
    \E p \in Procs :
        /\ proc[p].pc = "done" /\ proc[p].op = "create" /\ proc[p].status = 403
        /\ proc[p].role = "hr" /\ Head(proc[p].data).role = "admin"
        /\ ~EmailTaken(Head(proc[p].data).email)

\* The SickDays record of the employee for the year of the date, as a
\* sequence of length <= 1.
SickDaysRecord(employee_id, t) ==
    SelectSeq(sick_days, LAMBDA s : s.employee_id = employee_id /\ s.year = YearOf(t))

\* What the record says was used: its used_days, 0 when there is no record.
UsedDaysOnRecord(employee_id, t) ==
    IF SickDaysRecord(employee_id, t) = <<>> THEN 0
    ELSE Head(SickDaysRecord(employee_id, t)).used_days

\* C11: in every employee summary that get_employee returns and in every
\* summary that get_employees puts in its list, sick_days_remaining is
\* 3 - sick_days_used; and the summary a request makes reports as
\* sick_days_used the used_days of the employee's SickDays record for the
\* year of the date the request read for it, 0 when the employee has no
\* record for that year.
C11_SickDaysRemaining ==
    /\ [](\A p \in SeqProcs :
            LET r == proc[p] IN
            /\ (r.op = "get" /\ r.pc = "done" /\ r.status = 200)
               => Head(r.resp).sick_days_remaining = 3 - Head(r.resp).sick_days_used
            /\ r.op = "get_employees"
               => /\ \A i \in 1..Len(r.response) :
                        r.response[i].sick_days_remaining
                           = 3 - r.response[i].sick_days_used
                  /\ (r.pc = "done" /\ r.status = 200) => Head(r.resp) = r.response)
    /\ [][\A p \in SeqProcs :
            LET r == proc[p]
                q == proc'[p]
            IN /\ (r.pc = "get_sick" /\ q.pc = "done" /\ q.status = 200)
                  => /\ Head(q.resp).id = r.employee_id
                     /\ Head(q.resp).sick_days_used
                           = UsedDaysOnRecord(r.employee_id, r.current_date)
               /\ (r.pc = "list_sick" /\ q # r /\ q.status # 500)
                  => /\ Len(q.response) = Len(r.response) + 1
                     /\ q.response[Len(q.response)].id = r.employee_id
                     /\ q.response[Len(q.response)].sick_days_used
                           = UsedDaysOnRecord(r.employee_id, r.current_date)]_vars

\* A list of all the seeded employees was returned while the year changed:
\* the first summary was made with the employee's record of the old year,
\* the last of an employee with no record for the new year, and both
\* report none used, three remaining.
C11_Witness ==
    \E p \in SeqProcs :
        LET r == proc[p] IN
        /\ r.op = "get_employees" /\ r.pc = "done" /\ r.status = 200
        /\ Len(Head(r.resp)) = Len(sample_users)
        /\ Head(r.resp)[1].sick_days_used = 0
        /\ Head(r.resp)[1].sick_days_remaining = 3
        /\ Head(r.resp)[1].current_leave_balance = SeedLeave
        /\ SickDaysRecord(r.employee_id, r.current_date) = <<>>
        /\ Head(r.resp)[Len(Head(r.resp))].id = r.employee_id
        /\ Head(r.resp)[Len(Head(r.resp))].sick_days_used = 0
        /\ Head(r.resp)[Len(Head(r.resp))].sick_days_remaining = 3

\* No two user records have the same email.
UniqueEmails ==
    \A i, j \in 1..Len(users) : users[i].email = users[j].email => i = j

\* C12: a create_employee request of an Admin or HR whose email belongs to
\* a user record when the handler looks it up ends there with 400; no step
\* of a create request up to and including that lookup changes anything in
\* the store; with one request at a time, no two user records ever have the
\* same email.
C12_DuplicateEmailRejected ==
    /\ []UniqueEmails
    /\ [][/\ CreateRejectionWritesNothing
          /\ \A p \in SeqProcs :
                LET r == proc[p] IN
                (/\ proc'[p] # r /\ r.op = "create" /\ r.pc = "cre_email"
                 /\ EmailTaken(Head(r.data).email))
                => proc'[p].pc = "done" /\ proc'[p].status = 400]_vars

\* An employee was created with new@waqtek.com, and a second create with
\* the same email was answered 400: one user record has that email.
C12_Witness ==
    \E p \in SeqProcs :
        LET r == proc[p] IN
        /\ r.op = "create" /\ r.pc = "done" /\ r.status = 400
        /\ Head(r.data).email = "new@waqtek.com"
        /\ Len(SelectSeq(users, LAMBDA u : u.email = "new@waqtek.com")) = 1
        /\ Len(users) = Len(SeedUsers) + 1

\* C13: the steps of an adjust request that does not find the month's row
\* missing (the requests that end with 200) leave the employee records, the
\* SickDays rows and the user records as they were, insert and delete no
\* balance row, and change no balance row but the one the request read, the
\* employee's row of the month of the request's date; of that row only
\* closing_balance and hr_adjustments change: opening_balance, leave_taken
\* and the key stay.
C13_AdjustFrame ==
    [][\A p \in SeqProcs :
          LET r == proc[p] IN
          (/\ r.op = "adjust" /\ proc'[p] # r
           /\ r.pc \in {"auth", "role", "adj_emp", "adj_find", "adj_write",
                        "adj_record", "adj_audit"}
           /\ r.pc \in {"adj_write", "adj_record", "adj_audit"} => r.leave_balance # <<>>)
          => /\ employees' = employees
             /\ sick_days' = sick_days
             /\ users' = users
             /\ Len(leave_balances') = Len(leave_balances)
             /\ r.pc # "adj_write" => leave_balances' = leave_balances
             /\ r.pc = "adj_write" =>
                   \A i \in 1..Len(leave_balances) :
                      LET a == leave_balances[i]
                          b == leave_balances'[i]
                      IN IF a.id = Head(r.leave_balance).id
                         THEN /\ a.employee_id = r.employee_id
                              /\ a.year = YearOf(r.current_date)
                              /\ a.month = MonthOf(r.current_date)
                              /\ b = [a EXCEPT !.closing_balance = b.closing_balance,
                                               !.hr_adjustments = b.hr_adjustments]
                              /\ b.hr_adjustments = a.hr_adjustments + r.adjustment
                         ELSE b = a]_vars

\* An adjustment of +1.0 for employee 7 was answered 200: the row closes at
\* 21.0 with hr_adjustments 1.0, opening 20.0 and leave_taken 0.0 as before,
\* and the other rows, the employees and the SickDays rows are the seeded ones.
C13_Witness ==
    \E p \in SeqProcs :
        LET r == proc[p] IN
        /\ r.op = "adjust" /\ r.pc = "done" /\ r.status = 200
        /\ r.employee_id = 7 /\ r.adjustment = 2
        /\ leave_balances[7].closing_balance = SeedLeave + 2
        /\ leave_balances[7].hr_adjustments = 2
        /\ leave_balances[7].opening_balance = SeedLeave
        /\ leave_balances[7].leave_taken = 0
        /\ \A i \in 1..Len(sample_users) :
              i # 7 => leave_balances[i] = SeedLeaveBalances(InitialisedAt)[i]
        /\ employees = SeedEmployees
        /\ sick_days = SeedSickDays(InitialisedAt)

\* The months of a row's key and of a date, counted on one scale.
MonthIndex(year, month) == year * 12 + month

\* The employee's rows of the months before the date's.
PriorRows(employee_id, t) ==
    SelectSeq(leave_balances,
              LAMBDA r : /\ r.employee_id = employee_id
                         /\ MonthIndex(r.year, r.month) < MonthIndex(YearOf(t), MonthOf(t)))

\* The balance a month with no row opens at: what the employee's latest
\* earlier row closed at, the employee's initial_leave_balance when there
\* is no earlier row.
CarriedForward(emp, t) ==
    LET prior == PriorRows(emp.id, t) IN
    IF prior = <<>> THEN emp.initial_leave_balance
    ELSE LET i == CHOOSE i \in 1..Len(prior) :
                     \A j \in 1..Len(prior) :
                        MonthIndex(prior[j].year, prior[j].month)
                           <= MonthIndex(prior[i].year, prior[i].month)
         IN prior[i].closing_balance

\* C14: when an adjust request found the employee and no row for the
\* employee's current month, the row it inserted has hr_adjustments 0 and
\* opens and closes at what the employee's latest earlier row closed at (at
\* the employee's initial_leave_balance when there is no earlier row).
C14_MissingRowCarriesForward ==
    \A p \in SeqProcs :
        LET r == proc[p] IN
        (/\ r.op = "adjust" /\ r.pc = "done"
         /\ r.employee # <<>>
         /\ r.leave_balance = <<>>)
        => /\ RowsOf(r.employee_id, r.current_date) # <<>>
           /\ LET row == Head(RowsOf(r.employee_id, r.current_date))
                  carried == CarriedForward(Head(r.employee), r.current_date)
              IN /\ row.hr_adjustments = 0
                 /\ row.opening_balance = carried
                 /\ row.closing_balance = carried

\* Every document of the collection before the step is in it after the
\* step, at its place and as it was.
Kept(before, after) ==
    /\ Len(before) <= Len(after)
    /\ \A i \in 1..Len(before) : after[i] = before[i]

\* C15: over every sequence of login, create_employee, get_employee and
\* adjust_leave_balance requests, no step removes or changes a
\* LeaveAdjustment record or an AuditLog entry: whatever was written, or
\* was there when the service started, is in every later state, unchanged.
C15_AuditTrailAppendOnly ==
    [][/\ Kept(leave_adjustments, leave_adjustments')
       /\ Kept(audit_logs, audit_logs')]_vars

\* HR logged in and then took half a day from employee 7: the trail holds
\* the seeded entry, the LOGIN entry and the ADJUST_LEAVE_BALANCE entry, in
\* that order, and the new LeaveAdjustment record stands after the one
\* that was there before.
C15_Witness ==
    /\ Len(audit_logs) = 3
    /\ audit_logs[1] = SeedAuditLogs[1]
    /\ audit_logs[2].action = "LOGIN" /\ audit_logs[2].user_id = 2
    /\ audit_logs[3].action = "ADJUST_LEAVE_BALANCE" /\ audit_logs[3].target_id = 7
    /\ leave_adjustments
          = SurvivingAdjustments \o << NewLeaveAdjustment(7, -1, "unpaid day", 2) >>
    /\ users[2].last_login # <<>>

\* The balance updates applied for an employee.
AppliedOf(employee_id) == SelectSeq(applied, LAMBDA e : e = employee_id)

\* The ADJUST_LEAVE_BALANCE entries of the audit trail.
AdjustAudits == SelectSeq(audit_logs, LAMBDA a : a.action = "ADJUST_LEAVE_BALANCE")

\* C16: in every reachable state, with requests cut short by a failing
\* store, there are at most as many ADJUST_LEAVE_BALANCE audit entries as
\* LeaveAdjustment records and at most as many LeaveAdjustment records as
\* balance updates applied, in all and for each employee: no audit entry
\* without its record, no record without its balance update.
C16_WriteOrder ==
    /\ Len(AdjustAudits) <= Len(leave_adjustments)
    /\ Len(leave_adjustments) <= Len(applied)
    /\ \A e \in 1..Len(employees) :
          /\ Len(AdjustAuditsOf(e)) <= Len(AdjustmentsOf(e))
          /\ Len(AdjustmentsOf(e)) <= Len(AppliedOf(e))

\* One adjust request of employee 7 was cut short after its balance update
\* and the next stands between its record and its audit entry: two updates
\* applied, one LeaveAdjustment record, no audit entry.
C16_Witness ==
    /\ Len(AppliedOf(7)) = 2
    /\ Len(AdjustmentsOf(7)) = 1
    /\ AdjustAudits = <<>>
    /\ \E p \in SeqProcs : proc[p].op = "adjust" /\ proc[p].pc = "adj_audit"

\* Where a request stands when it has written nothing yet: at its arrival,
\* or at a step that only reads came before.
BeforeAnyWrite ==
    {"idle", "done", "auth", "role", "adj_emp", "adj_find", "adj_write"}

\* C17: an adjust request that ends with anything but success (400, 401,
\* 403, 404 or a server error) has written nothing: the step that ends it
\* leaves every collection as it was, and no step of the request before it
\* wrote.  So no request ends in an error after inserting a LeaveBalance row.
C17_FailureWritesNothing ==
    [][\A p \in SeqProcs :
          (/\ proc'[p] # proc[p] /\ proc'[p].op = "adjust"
           /\ proc'[p].pc = "done" /\ proc'[p].status # 200)
          => /\ UNCHANGED store
             /\ proc[p].pc \in BeforeAnyWrite]_vars

\* The sum of adjustment_amount over LeaveAdjustment records.
RECURSIVE SumOfAmounts(_)
SumOfAmounts(recs) ==
    IF recs = <<>> THEN 0
    ELSE Head(recs).adjustment_amount + SumOfAmounts(Tail(recs))

\* The sum of hr_adjustments over balance rows.
RECURSIVE SumOfHrAdjustments(_)
SumOfHrAdjustments(rows) ==
    IF rows = <<>> THEN 0
    ELSE Head(rows).hr_adjustments + SumOfHrAdjustments(Tail(rows))

\* An adjust request for the employee stands between its balance update
\* and its LeaveAdjustment insert.
RecordPending(employee_id) ==
    \E p \in Procs : /\ proc[p].op = "adjust" /\ proc[p].pc = "adj_record"
                      /\ proc[p].employee_id = employee_id

\* C18: hr_adjustments loses no update, whatever the interleaving and
\* whatever closing_balance ends at.  For every employee with no adjustment
\* between its update and its record, the hr_adjustments of the employee's
\* rows add up to the adjustment_amount of the employee's LeaveAdjustment
\* records.  And when the requests in flight together were all adjustments
\* that found the same row, all answered 200, and they are the only
\* adjustments of that employee, the row was read with hr_adjustments 0 and
\* ends with hr_adjustments 0 plus the sum of their amounts, which is the sum
\* over the records they wrote.
C18_HrAdjustmentsExact ==
    /\ \A e \in 1..Len(employees) :
          ~RecordPending(e)
          => SumOfHrAdjustments(AllRowsOf(e)) = SumOfAmounts(AdjustmentsOf(e))
    /\ (/\ \A p \in Procs :
               /\ proc[p].pc = "done" /\ proc[p].op = "adjust" /\ proc[p].status = 200
               /\ proc[p].employee_id = proc[1].employee_id
               /\ Head(proc[p].leave_balance).id = Head(proc[1].leave_balance).id
        /\ Len(AdjustmentsOf(proc[1].employee_id)) = Cardinality(Procs))
       => LET id == Head(proc[1].leave_balance).id
              row == Head(SelectSeq(leave_balances, LAMBDA r : r.id = id))
          IN /\ \E p \in Procs : Head(proc[p].leave_balance).hr_adjustments = 0
             /\ row.hr_adjustments = 0 + SumOfAdjustments(Procs)
             /\ row.hr_adjustments = SumOfAmounts(AdjustmentsOf(proc[1].employee_id))

\* Two adjustments of employee 7 read the row before either wrote it, and
\* both were answered 200: closing_balance lost one of them, hr_adjustments
\* holds both.
C18_Witness ==
    /\ \A p \in Procs :
          /\ proc[p].pc = "done" /\ proc[p].op = "adjust" /\ proc[p].status = 200
          /\ proc[p].employee_id = 7
          /\ Head(proc[p].leave_balance).hr_adjustments = 0
    /\ Len(AdjustmentsOf(7)) = Cardinality(Procs)
    /\ leave_balances[7].hr_adjustments = SumOfAdjustments(Procs)
    /\ leave_balances[7].closing_balance
          # leave_balances[7].opening_balance + leave_balances[7].hr_adjustments

====
